---- MODULE Spec2Model ----
(***************************************************************************)
(* Model of the ingestion-and-retrieval pipeline of rag-chat-assistant:    *)
(* the text chunker configured in process_uploaded_file, the Chroma index   *)
(* kept under CHROMA_PATH, the relevance gate and context assembly of      *)
(* query_database, and the Streamlit session around them.                  *)
(***************************************************************************)
EXTENDS Integers, Sequences, FiniteSets, TLC

(***************************************************************************)
(* Text is a sequence of one-character strings.                            *)
(***************************************************************************)
NL == "\n"
TAB == "\t"

\* the characters str.strip() removes
Whitespace == {" ", NL, TAB}

\* n copies of the character ch
Rep(n, ch) == [i \in 1..n |-> ch]

\* chunk_size=300, chunk_overlap=100 of the RecursiveCharacterTextSplitter
chunk_size == 300
chunk_overlap == 100

\* the default separator list of RecursiveCharacterTextSplitter
Separators == << <<NL, NL>>, <<NL>>, <<" ">>, <<>> >>

\* A value that is used more than once is bound through a one-element set,
\* CHOOSE r \in {e : x \in {v}} : TRUE, so that it is computed once.

\* str.strip(): drop leading and trailing whitespace
strip(s0) ==
    CHOOSE r \in
        {IF \A i \in 1..Len(s) : s[i] \in Whitespace
         THEN <<>>
         ELSE SubSeq(s,
                 CHOOSE i \in 1..Len(s) :
                     s[i] \notin Whitespace /\ \A j \in 1..(i-1) : s[j] \in Whitespace,
                 CHOOSE i \in 1..Len(s) :
                     s[i] \notin Whitespace /\ \A j \in (i+1)..Len(s) : s[j] \in Whitespace)
         : s \in {s0}} : TRUE

\* str.find(sub, start): 0-based index of the first occurrence at or after
\* start, -1 when there is none
find(text0, sub0, start0) ==
    CHOOSE r \in
        {LET last == Len(text) - Len(sub)
             At(i) == SubSeq(text, i + 1, i + Len(sub)) = sub
         IN IF \E i \in start..last : At(i)
            THEN CHOOSE i \in start..last : At(i) /\ \A j \in start..(i-1) : ~At(j)
            ELSE -1
         : text \in {text0}, sub \in {sub0}, start \in {start0}} : TRUE

\* a for loop "for i in lo..hi: st = Body(st, i)", evaluated by halving the
\* range so that long texts do not nest deeply
RECURSIVE ForLoop(_, _, _, _)
ForLoop(Body(_, _), st, lo, hi) ==
    IF lo > hi THEN st
    ELSE IF lo = hi THEN CHOOSE r \in {Body(v, lo) : v \in {st}} : TRUE
    ELSE CHOOSE r \in
             {ForLoop(Body, left, ((lo + hi) \div 2) + 1, hi) :
                 left \in {ForLoop(Body, st, lo, (lo + hi) \div 2)}} : TRUE

\* "".join / separator.join of a list of texts
join(sep0, parts0) ==
    CHOOSE r \in
        {ForLoop(LAMBDA acc, i : IF i = 1 THEN parts[i] ELSE acc \o sep \o parts[i],
                 <<>>, 1, Len(parts))
         : sep \in {sep0}, parts \in {parts0}} : TRUE

\* re.split("(sep)", text): the alternating list text, sep, text, ..., text
RECURSIVE re_split(_, _)
re_split(text0, sep0) ==
    CHOOSE r \in
        {IF i = -1 THEN <<text>>
         ELSE <<SubSeq(text, 1, i), sep>>
              \o re_split(SubSeq(text, i + Len(sep) + 1, Len(text)), sep)
         : <<text, sep, i>> \in {<<text0, sep0, find(text0, sep0, 0)>>}} : TRUE

\* _split_text_with_regex with keep_separator=True: each separator is kept
\* at the start of the piece that follows it; empty pieces are dropped
split_text_with_regex(text0, sep0) ==
    CHOOSE r \in
        {SelectSeq(
             IF sep # <<>>
             THEN \* len(_splits) is always odd, so no trailing element is added
                  CHOOSE q \in
                      {<<sp[1]>>
                       \o [k \in 1..((Len(sp) - 1) \div 2) |-> sp[2*k] \o sp[2*k + 1]]
                       : sp \in {re_split(text, sep)}} : TRUE
             ELSE [k \in 1..Len(text) |-> <<text[k]>>],
             LAMBDA s : s # <<>>)
         : text \in {text0}, sep \in {sep0}} : TRUE

\* _join_docs: join, strip, and None (here <<>>) for an empty result
join_docs(docs, sep) == strip(join(sep, docs))

SepLen(current_doc, sep, atLeast) == IF Len(current_doc) > atLeast THEN Len(sep) ELSE 0

\* the popping loop that keeps nothing of the emitted chunk: no overlap
pop_loop_all(current_doc, total, len, sep, c, o) == <<<<>>, 0>>

\* the "keep on popping" while loop of _merge_splits on st = <<current_doc,
\* total>>: one pop per iteration while the condition holds, and at most
\* len(current_doc) iterations since every pop removes one element
pop_loop(current_doc, total, len, sep, c, o) ==
    CHOOSE r \in
        {ForLoop(LAMBDA st, n :
                    IF st[2] > o \/ (st[2] + len + SepLen(st[1], sep, 0) > c /\ st[2] > 0)
                    THEN <<Tail(st[1]), st[2] - (Len(st[1][1]) + SepLen(st[1], sep, 1))>>
                    ELSE st,
                 st0, 1, Len(st0[1]))
         : st0 \in {<<current_doc, total>>}} : TRUE

\* _merge_splits: the for loop over splits on st = <<docs, current_doc,
\* total>>, then the final document
merge_splits(splits0, sep0, c, o) ==
    CHOOSE r \in
        {LET Body(st, i) ==
                 LET len == Len(splits[i])
                     over == st[3] + len + SepLen(st[2], sep, 0) > c
                 IN CHOOSE next \in
                      {<<IF over /\ Len(st[2]) > 0 /\ doc # <<>>
                         THEN Append(st[1], doc) ELSE st[1],
                         Append(popped[1], splits[i]),
                         popped[2] + len + SepLen(Append(popped[1], splits[i]), sep, 1)>>
                       : <<doc, popped>> \in
                           {<<IF over /\ Len(st[2]) > 0
                              THEN join_docs(st[2], sep) ELSE <<>>,
                              IF over /\ Len(st[2]) > 0
                              THEN pop_loop(st[2], st[3], len, sep, c, o)
                              ELSE <<st[2], st[3]>> >>}} : TRUE
         IN CHOOSE docs \in
              {CHOOSE last \in
                  {IF doc # <<>> THEN Append(end[1], doc) ELSE end[1]
                   : doc \in {join_docs(end[2], sep)}} : TRUE
               : end \in {ForLoop(Body, <<<<>>, <<>>, 0>>, 1, Len(splits))}} : TRUE
         : splits \in {splits0}, sep \in {sep0}} : TRUE

\* index of the separator _split_text picks: the first one that is "" or
\* occurs in the text
SepIndex(text, seps) ==
    CHOOSE i \in 1..Len(seps) :
        /\ seps[i] = <<>> \/ find(text, seps[i], 0) # -1
        /\ \A j \in 1..(i-1) : seps[j] # <<>> /\ find(text, seps[j], 0) = -1

\* RecursiveCharacterTextSplitter._split_text: the for loop over splits on
\* st = <<final_chunks, _good_splits>>, then the last flush
RECURSIVE split_text_rec(_, _, _, _)
split_text_rec(text0, separators0, c, o) ==
    CHOOSE r \in
        {LET separator == separators[k]
             new_separators == IF separator = <<>> THEN <<>>
                               ELSE SubSeq(separators, k + 1, Len(separators))
             Flush(st) == IF st[2] # <<>>
                          THEN st[1] \o merge_splits(st[2], <<>>, c, o)
                          ELSE st[1]
         IN CHOOSE final_chunks \in
              {LET Body(st, i) ==
                       IF Len(splits[i]) < c
                       THEN <<st[1], Append(st[2], splits[i])>>
                       ELSE <<Flush(st)
                              \o (IF new_separators = <<>>
                                  THEN <<splits[i]>>
                                  ELSE split_text_rec(splits[i], new_separators, c, o)),
                              <<>> >>
               IN CHOOSE chunks \in
                    {Flush(end) : end \in {ForLoop(Body, <<<<>>, <<>>>>, 1, Len(splits))}}
                    : TRUE
               : splits \in {split_text_with_regex(text, separators[k])}} : TRUE
         : <<text, separators, k>> \in
             {<<text0, separators0, SepIndex(text0, separators0)>>}} : TRUE

split_text(text, c, o) == split_text_rec(text, Separators, c, o)

\* create_documents searching each chunk from just after the previous
\* chunk's index instead of from its overlap
RECURSIVE start_index_after_previous(_, _, _, _, _, _)
start_index_after_previous(text, chunks, i, index, previous_chunk_len, o) ==
    IF i > Len(chunks) THEN <<>>
    ELSE CHOOSE r \in
             {<<[page_content |-> chunks[i], start_index |-> idx]>>
              \o start_index_after_previous(text, chunks, i + 1, idx, Len(chunks[i]), o)
              : idx \in {find(text, chunks[i], index + 1)}} : TRUE

\* create_documents with add_start_index=True: each chunk with the index
\* str.find gives it, searched from the previous chunk's overlap on
RECURSIVE start_index_loop(_, _, _, _, _, _)
start_index_loop(text, chunks, i, index, previous_chunk_len, o) ==
    IF i > Len(chunks) THEN <<>>
    ELSE CHOOSE r \in
             {<<[page_content |-> chunks[i], start_index |-> idx]>>
              \o start_index_loop(text, chunks, i + 1, idx, Len(chunks[i]), o)
              : idx \in {LET offset == index + previous_chunk_len - o
                         IN find(text, chunks[i], IF offset > 0 THEN offset ELSE 0)}}
             : TRUE

split_documents(text0, c, o) ==
    CHOOSE r \in
        {start_index_loop(text, chunks, 1, 0, 0, o)
         : <<text, chunks>> \in {<<text0, split_text(text0, c, o)>>}} : TRUE

(***************************************************************************)
(* query_database: relevance gate, context assembly, completion, sources.  *)
(* Relevance scores are in hundredths: 70 stands for 0.7.                  *)
(***************************************************************************)
RelevanceThreshold == 70
K == 3

NoSource == "<no source>"
NoMatchMessage == "Unable to find matching results. Please try rephrasing your question or upload more documents."
ErrorPrefix == "Error processing query: "

\* the separator "\n\n---\n\n" of the context join
ContextSeparator == <<NL, NL, "-", "-", "-", NL, NL>>

\* PROMPT_TEMPLATE.format(context=..., question=...)
format_prompt(context, question) ==
    <<NL, "Answer the question based only on the following context:", NL, NL>>
    \o context
    \o <<NL, NL, "-", "-", "-", NL, NL, "Answer the question based on the above context: ">>
    \o question \o <<NL>>

\* the gate "len(results) == 0 or results[0][1] < 0.7" with the strict
\* comparison taken for "<="
no_match_le(results) ==
    Len(results) = 0 \/ results[1].score <= RelevanceThreshold

\* the gate: len(results) == 0 or results[0][1] < 0.7
no_match(results) ==
    Len(results) = 0 \/ results[1].score < RelevanceThreshold

\* the context built only from the results that pass the threshold themselves
context_text_above(results) ==
    join(ContextSeparator,
         LET kept == SelectSeq(results, LAMBDA r : r.score >= RelevanceThreshold)
         IN [i \in 1..Len(kept) |-> kept[i].page_content])

\* context_text = "\n\n---\n\n".join([doc.page_content for doc, _score in results])
context_text_of(results) ==
    join(ContextSeparator, [i \in 1..Len(results) |-> results[i].page_content])

\* doc.metadata.get("source", "Unknown")
source_of(doc) == IF doc.source = NoSource THEN "Unknown" ELSE doc.source

\* the sources with each document named once
RECURSIVE sources_dedup(_)
sources_dedup(results) ==
    IF results = <<>> THEN <<>>
    ELSE LET init == sources_dedup(SubSeq(results, 1, Len(results) - 1))
             last == source_of(results[Len(results)])
         IN IF \E i \in 1..Len(init) : init[i] = last THEN init ELSE Append(init, last)

\* sources = [doc.metadata.get("source", "Unknown") for doc, _score in results]
sources_of(results) == [i \in 1..Len(results) |-> source_of(results[i])]

\* a completion that is asked again after a failure
completion_calls_retry(llm) == IF llm = "fail" THEN 2 ELSE 1

\* model.invoke(prompt): the number of completion calls one query makes once
\* the gate has passed
completion_calls(llm) == 1

\* query_database(question, db), given what the two calls it makes produce:
\*   search = [raised, error, results]: db.similarity_search_with_relevance_scores,
\*            which raises error or returns results, a sequence of
\*            [page_content, source, score];
\*   llm in {"text", "empty", "fail"}: ChatOpenAI().invoke(prompt).content
\* The result is the returned pair (response, sources-or-message), with the
\* context, the prompt and the number of completion calls made on the way.
query_database(question, search, llm) ==
    IF search.raised
    THEN [response |-> <<>>, kind |-> "error", sources |-> <<>>,
          message |-> <<ErrorPrefix, search.error>>, context |-> <<>>,
          prompt |-> <<>>, calls |-> 0]
    ELSE IF no_match(search.results)
    THEN [response |-> <<>>, kind |-> "nomatch", sources |-> <<>>,
          message |-> <<NoMatchMessage>>, context |-> <<>>,
          prompt |-> <<>>, calls |-> 0]
    ELSE LET context_text == context_text_of(search.results)
             prompt == format_prompt(context_text, question)
         IN IF llm = "fail"
            THEN [response |-> <<>>, kind |-> "error", sources |-> <<>>,
                  message |-> <<ErrorPrefix, "completion failed">>,
                  context |-> context_text, prompt |-> prompt,
                  calls |-> completion_calls(llm)]
            ELSE [response |-> IF llm = "empty" THEN <<>>
                               ELSE <<"answer to">> \o question,
                  kind |-> "answer",
                  sources |-> sources_of(search.results),
                  message |-> <<>>,
                  context |-> context_text, prompt |-> prompt,
                  calls |-> completion_calls(llm)]

(***************************************************************************)
(* The files a user can upload and the chunks process_uploaded_file makes  *)
(* of them.                                                                *)
(***************************************************************************)
SUPPORTED_TYPES == {"txt", "md", "html", "htm", "pdf", "docx", "doc", "ppt",
                    "pptx", "csv", "json", "xlsx", "xls"}

\* a file of two chunks, a file of one chunk, a zero-byte file
FileText ==
    [ f \in {"a.txt", "b.md", "e.txt"} |->
        CASE f = "a.txt" -> Rep(400, "a")
          [] f = "b.md"  -> <<"b", "b", " ", "b">>
          [] f = "e.txt" -> <<>> ]

\* a file whose bytes are not valid UTF-8: no loader can read it as text
Undecodable == {"n.txt"}

Files == DOMAIN FileText \cup Undecodable

\* get_file_extension
get_file_extension(filename) ==
    CASE filename = "a.txt" -> "txt"
      [] filename = "b.md"  -> "md"
      [] filename = "e.txt" -> "txt"
      [] filename = "n.txt" -> "txt"

\* the chunks of each file's text under the configured splitter
FileChunks ==
    [f \in Files |->
        IF f \in Undecodable THEN <<>>
        ELSE split_documents(FileText[f], chunk_size, chunk_overlap)]

\* a chunk is named by its file and its position among the file's chunks
page_content(chunk) == FileChunks[chunk[1]][chunk[2]].page_content

NoType == "<no file_type>"

\* uploaded_file.read().decode('utf-8') in the upload loop of
\* app_enhanced.py, outside any try: it raises on bytes that are not UTF-8
read_raises(a, filename) == a = "enhanced" /\ filename \in Undecodable

\* what a call of process_uploaded_file leaves besides its chunks:
\*   error: st.error was shown; tmp_left: temporary files created with
\*   delete=False that no os.unlink removed before the return.
\* app.py: the first temporary file is unlinked only after a successful load
\* and split; on the fallback path for an unsupported type a second file is
\* created, and tmp_file_path names the second one only once the bytes have
\* decoded, so one of the two files is left on either branch.
\* app_enhanced.py receives decoded text, which its TextLoader reads back.
process_outcome(a, filename) ==
    IF a = "enhanced"
    THEN [error |-> FALSE, tmp_left |-> 0]
    ELSE IF get_file_extension(filename) \in SUPPORTED_TYPES
    THEN IF filename \in Undecodable
         THEN [error |-> TRUE, tmp_left |-> 1]     \* loader.load() raises
         ELSE [error |-> FALSE, tmp_left |-> 0]
    ELSE IF filename \in Undecodable
         THEN [error |-> TRUE, tmp_left |-> 1]     \* first unlinked, second left
         ELSE [error |-> FALSE, tmp_left |-> 1]    \* second unlinked, first left

\* process_uploaded_file of app.py (file_type set) and of app_enhanced.py
\* (no file_type): the chunk documents with their metadata; an exception
\* returns no chunk
process_uploaded_file(app, filename) ==
    [k \in 1..Len(FileChunks[filename]) |->
        [chunk |-> <<filename, k>>,
         source |-> filename,
         file_type |-> IF app = "app" THEN get_file_extension(filename) ELSE NoType]]

(***************************************************************************)
(* The Chroma index under CHROMA_PATH: whether the directory exists and    *)
(* the entries it holds, in insertion order.                               *)
(***************************************************************************)
EmbedderStates == {"ok", "unreachable", "misconfigured"}

\* the entries the index makes of chunk documents, ids assigned from next on
NewEntries(docs, next) ==
    [k \in 1..Len(docs) |->
        [id |-> next + k - 1, chunk |-> docs[k].chunk, source |-> docs[k].source,
         file_type |-> docs[k].file_type]]

\* an add that builds the store anew from the chunks of the call on both paths
add_documents_rebuild(db, docs, emb, next) ==
    IF emb = "misconfigured"
    THEN [ok |-> FALSE, chroma |-> db, path |-> "none"]
    ELSE IF emb = "unreachable"
    THEN [ok |-> FALSE, path |-> IF db.exists THEN "append" ELSE "create",
          chroma |-> [exists |-> TRUE, entries |-> db.entries]]
    ELSE [ok |-> TRUE, path |-> IF db.exists THEN "append" ELSE "create",
          chroma |-> [exists |-> TRUE, entries |-> NewEntries(docs, next)]]

\* an add that stores only the chunks the store does not hold yet
add_documents_once(db, docs, emb, next) ==
    LET held == {db.entries[i].chunk : i \in 1..Len(db.entries)}
        fresh == SelectSeq(docs, LAMBDA d : d.chunk \notin held)
    IN IF emb # "ok"
       THEN [ok |-> FALSE, chroma |-> db,
             path |-> IF emb = "misconfigured" THEN "none"
                      ELSE IF db.exists THEN "append" ELSE "create"]
       ELSE [ok |-> TRUE, path |-> IF db.exists THEN "append" ELSE "create",
             chroma |-> [exists |-> TRUE,
                         entries |-> db.entries \o NewEntries(fresh, next)]]

\* add_documents_to_database(chunks): returns [ok, chroma, path]
\*   OpenAIEmbeddings() raises when the credential is missing;
\*   db.add_documents / Chroma.from_documents embed every chunk before they
\*   store any; Chroma.from_documents opens (creates) the store first
add_documents_to_database(db, docs, emb, next) ==
    IF emb = "misconfigured"
    THEN [ok |-> FALSE, chroma |-> db, path |-> "none"]
    ELSE IF db.exists
    THEN IF emb = "unreachable"
         THEN [ok |-> FALSE, chroma |-> db, path |-> "append"]
         ELSE [ok |-> TRUE, path |-> "append",
               chroma |-> [db EXCEPT !.entries = @ \o NewEntries(docs, next)]]
    ELSE IF emb = "unreachable"
         THEN [ok |-> FALSE, path |-> "create",
               chroma |-> [exists |-> TRUE, entries |-> <<>>]]
         ELSE [ok |-> TRUE, path |-> "create",
               chroma |-> [exists |-> TRUE, entries |-> NewEntries(docs, next)]]

\* a removal that empties the directory and leaves it in place
rmtree_contents(db) == [exists |-> TRUE, entries |-> <<>>]

\* shutil.rmtree(CHROMA_PATH)
rmtree(db) == [exists |-> FALSE, entries |-> <<>>]

\* save_to_chroma(chunks) of create_database_simple.py: returns [ok, chroma, path]
\*   it removes an existing directory first, then creates the store anew
save_to_chroma(db, docs, emb, next) ==
    LET emptied == IF db.exists THEN rmtree(db) ELSE db
        path == IF db.exists THEN "rebuild" ELSE "create"
    IN IF emb = "misconfigured"
       THEN [ok |-> FALSE, chroma |-> emptied, path |-> path]
       ELSE IF emb = "unreachable"
       THEN [ok |-> FALSE, path |-> path,
             chroma |-> [exists |-> TRUE, entries |-> <<>>]]
       ELSE [ok |-> TRUE, path |-> path,
             chroma |-> [exists |-> TRUE, entries |-> NewEntries(docs, next)]]

Range(seq) == {seq[i] : i \in 1..Len(seq)}

\* get_database_info of app.py: count, sources, file_types
get_database_info(db, emb) ==
    IF ~db.exists \/ emb = "misconfigured"
    THEN [count |-> 0, sources |-> {}, file_types |-> <<>>]
    ELSE LET withSource == SelectSeq(db.entries, LAMBDA e : e.source # NoSource)
             types == {IF e.file_type = NoType THEN "unknown" ELSE e.file_type :
                          e \in Range(withSource)}
         IN [count |-> Len(db.entries),
             sources |-> {e.source : e \in Range(withSource)},
             file_types |->
                 [t \in types |->
                     Cardinality({i \in 1..Len(withSource) :
                         (IF withSource[i].file_type = NoType THEN "unknown"
                          ELSE withSource[i].file_type) = t})]]

(***************************************************************************)
(* Similarity search.  The embedding model is outside the program: its     *)
(* relevance score for a question and a chunk is a fixed table.            *)
(***************************************************************************)
Questions == {"qa", "qz"}

\* relevance, in hundredths, of a chunk for a question
Relevance(q, chunk) ==
    CASE q = "qa" /\ chunk = <<"a.txt", 1>> -> 95
      [] q = "qa" /\ chunk = <<"a.txt", 2>> -> 60
      [] q = "qa" /\ chunk = <<"b.md", 1>>  -> 30
      [] q = "qz" /\ chunk = <<"b.md", 1>>  -> 65
      [] OTHER -> 20

\* the position of the most relevant entry, the earliest among equals
Best(q, entries) ==
    CHOOSE i \in 1..Len(entries) :
        /\ \A j \in 1..Len(entries) :
              Relevance(q, entries[j].chunk) <= Relevance(q, entries[i].chunk)
        /\ \A j \in 1..(i-1) :
              Relevance(q, entries[j].chunk) < Relevance(q, entries[i].chunk)

Remove(seq, i) == SubSeq(seq, 1, i - 1) \o SubSeq(seq, i + 1, Len(seq))

\* the k nearest entries, most relevant first
RECURSIVE TopK(_, _, _)
TopK(q, entries, k) ==
    IF k = 0 \/ entries = <<>> THEN <<>>
    ELSE LET i == Best(q, entries)
         IN <<entries[i]>> \o TopK(q, Remove(entries, i), k - 1)

NoneDb == [state |-> "none", snap |-> <<>>]
LiveDb == [state |-> "live", snap |-> <<>>]

\* db.similarity_search_with_relevance_scores(question, k=3) on a session's
\* handle: None has no such method; the question is embedded first; a handle
\* whose directory was removed under it either still answers from the
\* entries it had open (stale = "old") or fails (stale = "error")
similarity_search_with_relevance_scores(handle, db, q, emb, stale) ==
    LET Scored(entries) ==
            LET top == TopK(q, entries, K)
            IN [i \in 1..Len(top) |->
                   [id |-> top[i].id,
                    page_content |-> page_content(top[i].chunk),
                    source |-> top[i].source,
                    score |-> Relevance(q, top[i].chunk)]]
    IN IF handle.state = "none"
       THEN [raised |-> TRUE, error |-> "'NoneType' object has no attribute", results |-> <<>>]
       ELSE IF emb # "ok"
       THEN [raised |-> TRUE, error |-> "embedding unavailable", results |-> <<>>]
       ELSE IF handle.state = "stale"
       THEN IF stale = "error"
            THEN [raised |-> TRUE, error |-> "index storage is gone", results |-> <<>>]
            ELSE [raised |-> FALSE, error |-> "", results |-> Scored(handle.snap)]
       ELSE [raised |-> FALSE, error |-> "", results |-> Scored(db.entries)]

\* initialize_database(): a handle on the existing directory, else None
initialize_database(db, emb) ==
    IF emb = "misconfigured" THEN NoneDb
    ELSE IF db.exists THEN LiveDb
    ELSE NoneDb

(***************************************************************************)
(* State.                                                                  *)
(***************************************************************************)
\* bounds of the model
MaxId == 4          \* entry ids the index hands out in one behaviour
MaxBatch == 2       \* files in one upload batch
MaxMsgs == 3        \* chat messages kept in one session

\* the browser sessions of the Streamlit program; the other programs on the
\* same directory are the actions further down
Sessions == {"s1"}

\* the two Streamlit programs: app.py and app_enhanced.py
Apps == {"app", "enhanced"}

\* the markdown files under DATA_PATH that create_database_simple.py loads
Books == <<"b.md">>

VARIABLES
    app,            \* which of the two programs the sessions run
    chroma,         \* the persisted index: [exists, entries]
    nextId,         \* the next entry id the index assigns
    embedder,       \* the state of the embedding service and its credential
    session_db,     \* st.session_state.db of each session
    messages,       \* st.session_state.messages of each session
    db_info,        \* db_info of each session's current script run
    pc,             \* where each session's script run stands
    batch,          \* the upload loop of each session: files left and tally
    ev,             \* the last completed operation and what it returned
    qry,            \* query_database applied to drawn search results
    spl,            \* the splitter applied to a drawn text
    inflight        \* the add calls in flight, statement by statement

sysvars == <<app, chroma, nextId, embedder, session_db, messages,
             db_info, pc, batch, ev, inflight>>
vars == <<app, chroma, nextId, embedder, session_db, messages,
          db_info, pc, batch, ev, qry, spl, inflight>>

NoInfo == [count |-> 0, sources |-> {}, file_types |-> <<>>]
\* the upload loop's locals, and beside them what the loop really did:
\* added_files and added_chunks count the files and chunks whose add
\* succeeded, empty the files that gave no chunk and no error
NoBatch == [files |-> <<>>, size |-> 0, total_chunks |-> 0, processed_files |-> 0,
            added_files |-> 0, added_chunks |-> 0, empty |-> 0]
QryIdle == [done |-> FALSE]
SplIdle == [done |-> FALSE]

\* the sessions whose calls of add_documents_to_database are followed
\* statement by statement
Callers == {"s1", "s2"}

\* no call in flight.  Of a call: pc is the statement it stands before,
\* branch what os.path.exists answered, stale whether the directory was
\* removed after the call opened it, cleared whether a clear ran since the
\* call began, ok and ids what it returned and the entries it stored
NoCall == [pc |-> "idle", file |-> "", branch |-> "", stale |-> FALSE,
           cleared |-> FALSE, ok |-> FALSE, ids |-> {}]

\* what removing the directory does to the calls in flight
Interrupted(calls) ==
    [c \in Callers |->
        IF calls[c].pc = "idle" THEN calls[c]
        ELSE [calls[c] EXCEPT !.cleared = TRUE,
                              !.stale = calls[c].pc \in {"opened", "embedded"}]]

SysInit ==
    /\ inflight = [c \in Callers |-> NoCall]
    /\ app \in Apps
    /\ chroma = [exists |-> FALSE, entries |-> <<>>]
    /\ nextId = 1
    /\ embedder = "ok"
    /\ session_db = [s \in Sessions |-> NoneDb]
    /\ messages = [s \in Sessions |-> <<>>]
    /\ db_info = [s \in Sessions |-> NoInfo]
    /\ pc = [s \in Sessions |-> "idle"]
    /\ batch = [s \in Sessions |-> NoBatch]
    /\ ev = [op |-> "none"]

Init == SysInit /\ qry = QryIdle /\ spl = SplIdle

Ids(entries) == {entries[i].id : i \in 1..Len(entries)}

\* what removing the directory does to the handles sessions hold on it
Orphaned(handles, entries) ==
    [s \in Sessions |->
        IF handles[s].state = "live" THEN [state |-> "stale", snap |-> entries]
        ELSE handles[s]]

(***************************************************************************)
(* Ingestion: the "Process Uploaded Files" button.                         *)
(***************************************************************************)
BatchesOf(n) == UNION {[1..m -> Files] : m \in 1..n}

\* the button is pressed on a batch of uploaded files
StartUpload(s, files) ==
    /\ pc[s] = "idle"
    /\ batch' = [batch EXCEPT ![s] = [NoBatch EXCEPT !.files = files,
                                                      !.size = Len(files)]]
    /\ pc' = [pc EXCEPT ![s] = "upload"]
    /\ ev' = [op |-> "start_upload", s |-> s]
    /\ UNCHANGED <<app, inflight, chroma, nextId, embedder, session_db, messages,
                   db_info, qry, spl>>

\* one iteration of "for uploaded_file in uploaded_files"; in
\* app_enhanced.py a file that does not decode raises out of the loop and
\* ends the script run
UploadFile(s) ==
    /\ pc[s] = "upload"
    /\ batch[s].files # <<>>
    /\ LET f == Head(batch[s].files)
           chunks == process_uploaded_file(app, f)
           outcome == process_outcome(app, f)
           rest == [batch[s] EXCEPT !.files = Tail(@)]
       IN IF read_raises(app, f)
          THEN /\ batch' = [batch EXCEPT ![s] = NoBatch]
               /\ pc' = [pc EXCEPT ![s] = "idle"]
               /\ ev' = [op |-> "abort", s |-> s, file |-> f,
                         left |-> Len(Tail(batch[s].files))]
               /\ UNCHANGED <<chroma, nextId>>
          ELSE IF chunks # <<>>
          THEN /\ nextId + Len(chunks) - 1 <= MaxId
               /\ LET r == add_documents_to_database(chroma, chunks, embedder, nextId)
                  IN /\ chroma' = r.chroma
                     /\ nextId' = IF r.ok THEN nextId + Len(chunks) ELSE nextId
                     /\ batch' = [batch EXCEPT ![s] =
                                     IF r.ok
                                     THEN [rest EXCEPT !.total_chunks = @ + Len(chunks),
                                                       !.processed_files = @ + 1,
                                                       !.added_files = @ + 1,
                                                       !.added_chunks = @ + Len(chunks)]
                                     ELSE rest]
                     /\ ev' = [op |-> "add", s |-> s, file |-> f, ok |-> r.ok,
                               path |-> r.path, n |-> Len(chunks),
                               error |-> ~r.ok, tmp_left |-> outcome.tmp_left]
               /\ pc' = pc
          ELSE /\ batch' = [batch EXCEPT ![s] =
                               IF outcome.error THEN rest
                               ELSE [rest EXCEPT !.empty = @ + 1]]
               /\ ev' = [op |-> "skip", s |-> s, file |-> f,
                         error |-> outcome.error, tmp_left |-> outcome.tmp_left]
               /\ pc' = pc
               /\ UNCHANGED <<chroma, nextId>>
    /\ UNCHANGED <<app, inflight, embedder, session_db, messages, db_info, qry, spl>>

\* after the loop: st.success with the tally when total_chunks > 0, else
\* st.error("Failed to process files"); the run ends either way.  app.py
\* reports processed_files, app_enhanced.py reports len(uploaded_files)
EndUpload(s) ==
    /\ pc[s] = "upload"
    /\ batch[s].files = <<>>
    /\ ev' = [op |-> "tally", s |-> s,
              success |-> batch[s].total_chunks > 0,
              files |-> IF app = "app" THEN batch[s].processed_files
                        ELSE batch[s].size,
              of |-> batch[s].size,
              chunks |-> batch[s].total_chunks,
              added_files |-> batch[s].added_files,
              added_chunks |-> batch[s].added_chunks,
              empty |-> batch[s].empty]
    /\ batch' = [batch EXCEPT ![s] = NoBatch]
    /\ pc' = [pc EXCEPT ![s] = "idle"]
    /\ UNCHANGED <<app, inflight, chroma, nextId, embedder, session_db, messages,
                   db_info, qry, spl>>

(***************************************************************************)
(* A script run of a session: sidebar status, Clear Database button,       *)
(* handle initialisation, chat input, Clear Chat button.  db_info is a     *)
(* local of the run: it is NoInfo outside a run.                           *)
(***************************************************************************)
\* db_info = get_database_info()
Sidebar(s) ==
    /\ pc[s] = "idle"
    /\ db_info' = [db_info EXCEPT ![s] = get_database_info(chroma, embedder)]
    /\ pc' = [pc EXCEPT ![s] = "sidebar"]
    /\ ev' = [op |-> "stats", s |-> s, info |-> get_database_info(chroma, embedder)]
    /\ UNCHANGED <<app, inflight, chroma, nextId, embedder, session_db, messages,
                   batch, qry, spl>>

\* the Clear Database button: only when the directory exists does it remove
\* it, drop this session's handle and rerun
ClearDatabaseButton(s) ==
    /\ pc[s] = "sidebar"
    /\ IF chroma.exists
       THEN /\ chroma' = rmtree(chroma)
            /\ session_db' = [Orphaned(session_db, chroma.entries) EXCEPT ![s] = NoneDb]
            /\ pc' = [pc EXCEPT ![s] = "idle"]
            /\ db_info' = [db_info EXCEPT ![s] = NoInfo]
       ELSE UNCHANGED <<chroma, session_db, pc, db_info>>
    /\ ev' = [op |-> "clear", s |-> s, by |-> "button", existed |-> chroma.exists]
    /\ inflight' = IF chroma.exists THEN Interrupted(inflight) ELSE inflight
    /\ UNCHANGED <<app, nextId, embedder, messages, batch, qry, spl>>

\* "if st.session_state.db is None: ... initialize_database()", then the
\* stop when there is no handle and the sidebar counted no chunk
Main(s) ==
    /\ pc[s] = "sidebar"
    /\ LET db == IF session_db[s].state = "none"
                 THEN initialize_database(chroma, embedder)
                 ELSE session_db[s]
           stop == db.state = "none" /\ db_info[s].count = 0
       IN /\ session_db' = [session_db EXCEPT ![s] = db]
          /\ pc' = [pc EXCEPT ![s] = IF stop THEN "idle" ELSE "chat"]
          /\ db_info' = [db_info EXCEPT ![s] = IF stop THEN NoInfo ELSE @]
          /\ ev' = [op |-> "main", s |-> s, handle |-> db.state, stop |-> stop]
    /\ UNCHANGED <<app, inflight, chroma, nextId, embedder, messages, batch, qry, spl>>

\* a chat that records an assistant message whatever query_database returned
record_always(msgs, response, sources) ==
    Append(msgs, [role |-> "assistant", content |-> response, sources |-> sources])

\* a chat that drops the question from the history when no answer came
record_or_forget(msgs, response, sources) ==
    IF response # <<>>
    THEN Append(msgs, [role |-> "assistant", content |-> response, sources |-> sources])
    ELSE SubSeq(msgs, 1, Len(msgs) - 1)

\* "if response:": the assistant message is recorded for a response that
\* is neither None nor empty; otherwise st.error shows the second element
record_answer(msgs, response, sources) ==
    IF response # <<>>
    THEN Append(msgs, [role |-> "assistant", content |-> response, sources |-> sources])
    ELSE msgs

\* a question typed into the chat input
Chat(s, q, llm, stale) ==
    /\ pc[s] = "chat"
    /\ Len(messages[s]) + 2 <= MaxMsgs
    /\ LET question == <<q>>
           search == similarity_search_with_relevance_scores(
                         session_db[s], chroma, q, embedder, stale)
           out == query_database(question, search, llm)
           user == [role |-> "user", content |-> question, sources |-> <<>>]
       IN /\ messages' = [messages EXCEPT ![s] =
                             record_answer(Append(@, user), out.response, out.sources)]
          /\ ev' = [op |-> "query", s |-> s, q |-> q,
                    results |-> [i \in 1..Len(search.results) |-> search.results[i].id],
                    kind |-> out.kind, message |-> out.message,
                    calls |-> out.calls,
                    llm |-> IF out.calls > 0 THEN llm ELSE "not called",
                    response |-> out.response, sources |-> out.sources]
    /\ pc' = [pc EXCEPT ![s] = "idle"]
    /\ db_info' = [db_info EXCEPT ![s] = NoInfo]
    /\ UNCHANGED <<app, inflight, chroma, nextId, embedder, session_db, batch, qry, spl>>

\* the Clear Chat button
ClearChat(s) ==
    /\ pc[s] = "chat"
    /\ messages[s] # <<>>
    /\ messages' = [messages EXCEPT ![s] = <<>>]
    /\ pc' = [pc EXCEPT ![s] = "idle"]
    /\ db_info' = [db_info EXCEPT ![s] = NoInfo]
    /\ ev' = [op |-> "clear_chat", s |-> s]
    /\ UNCHANGED <<app, inflight, chroma, nextId, embedder, session_db, batch, qry, spl>>

\* the run ends with no chat input
EndRun(s) ==
    /\ pc[s] \in {"sidebar", "chat"}
    /\ pc' = [pc EXCEPT ![s] = "idle"]
    /\ db_info' = [db_info EXCEPT ![s] = NoInfo]
    /\ ev' = [op |-> "end_run", s |-> s]
    /\ UNCHANGED <<app, inflight, chroma, nextId, embedder, session_db, messages,
                   batch, qry, spl>>

(***************************************************************************)
(* The other programs on the same directory, and the environment.          *)
(***************************************************************************)
\* document_manager.py: clear_database()
clear_database ==
    /\ IF chroma.exists
       THEN /\ chroma' = rmtree(chroma)
            /\ session_db' = Orphaned(session_db, chroma.entries)
       ELSE UNCHANGED <<chroma, session_db>>
    /\ ev' = [op |-> "clear", s |-> "manager", by |-> "manager",
              existed |-> chroma.exists]
    /\ ev' # ev
    /\ inflight' = IF chroma.exists THEN Interrupted(inflight) ELSE inflight
    /\ UNCHANGED <<app, nextId, embedder, messages, db_info, pc, batch,
                   qry, spl>>

\* document_manager.py: list_documents(), through its get_database_info
list_documents ==
    /\ ev' = [op |-> "stats", s |-> "manager",
              info |-> get_database_info(chroma, embedder)]
    /\ ev' # ev
    /\ UNCHANGED <<app, inflight, chroma, nextId, embedder, session_db, messages,
                   db_info, pc, batch, qry, spl>>

\* create_database_simple.py: generate_data_store()
generate_data_store ==
    LET docs == [k \in 1..Len(FileChunks[Books[1]]) |->
                    [chunk |-> <<Books[1], k>>, source |-> Books[1],
                     file_type |-> NoType]]
        r == save_to_chroma(chroma, docs, embedder, nextId)
    IN /\ nextId + Len(docs) - 1 <= MaxId
       /\ chroma' = r.chroma
       /\ nextId' = IF r.ok THEN nextId + Len(docs) ELSE nextId
       /\ session_db' = IF chroma.exists THEN Orphaned(session_db, chroma.entries)
                        ELSE session_db
       /\ ev' = [op |-> "add", s |-> "script", file |-> Books[1], ok |-> r.ok,
                 path |-> r.path, n |-> Len(docs)]
       /\ inflight' = IF chroma.exists THEN Interrupted(inflight) ELSE inflight
       /\ UNCHANGED <<app, embedder, messages, db_info, pc, batch,
                      qry, spl>>

\* the embedding service goes down or comes back, the credential is set or lost
EmbedderChange(e) ==
    /\ e # embedder
    /\ embedder' = e
    /\ ev' = [op |-> "embedder", to |-> e]
    /\ UNCHANGED <<app, inflight, chroma, nextId, session_db, messages, db_info,
                   pc, batch, qry, spl>>

(***************************************************************************)
(* add_documents_to_database statement by statement, for calls that        *)
(* sessions make at the same time: nothing in the program orders them.     *)
(* The store keeps one collection per directory; the library embeds every  *)
(* chunk of a call and then stores them in one upsert.                     *)
(***************************************************************************)
\* the file each session adds, both giving chunks
Uploads == [s1 |-> "a.txt", s2 |-> "b.md"]

\* db.add_documents(chunks), and the add inside Chroma.from_documents: the
\* entries of the call are appended to the collection of the directory
upsert(db, docs, next) ==
    [exists |-> TRUE, entries |-> db.entries \o NewEntries(docs, next)]

\* embedding_function = OpenAIEmbeddings(); if os.path.exists(CHROMA_PATH)
AddBegin(c, f) ==
    /\ inflight[c].pc \in {"idle", "done"}
    /\ f = Uploads[c]
    /\ inflight' = [inflight EXCEPT ![c] =
           IF embedder = "misconfigured"
           THEN [NoCall EXCEPT !.pc = "done", !.file = f, !.branch = "none"]
           ELSE [NoCall EXCEPT !.pc = "checked", !.file = f,
                               !.branch = IF chroma.exists THEN "append" ELSE "create"]]
    /\ UNCHANGED <<app, chroma, nextId, embedder, session_db, messages,
                   db_info, pc, batch, ev, qry, spl>>

\* Chroma(persist_directory=CHROMA_PATH, ...) on the append branch, the
\* client that Chroma.from_documents makes on the create branch: either
\* opens the directory, creating it when it is not there
AddOpen(c) ==
    /\ inflight[c].pc = "checked"
    /\ chroma' = [chroma EXCEPT !.exists = TRUE]
    /\ inflight' = [inflight EXCEPT ![c].pc = "opened"]
    /\ UNCHANGED <<app, nextId, embedder, session_db, messages,
                   db_info, pc, batch, ev, qry, spl>>

\* the embedding of every chunk of the call, before any is stored
AddEmbed(c) ==
    /\ inflight[c].pc = "opened"
    /\ inflight' = [inflight EXCEPT ![c].pc =
                        IF embedder = "ok" THEN "embedded" ELSE "done"]
    /\ UNCHANGED <<app, chroma, nextId, embedder, session_db, messages,
                   db_info, pc, batch, ev, qry, spl>>

\* the upsert and the return.  Through a handle whose directory was removed
\* the upsert either raises or goes to the removed files
AddStore(c, gone) ==
    /\ inflight[c].pc = "embedded"
    /\ LET docs == process_uploaded_file(app, inflight[c].file)
       IN /\ nextId + Len(docs) - 1 <= MaxId
          /\ IF inflight[c].stale
             THEN /\ inflight' = [inflight EXCEPT ![c].pc = "done",
                                                  ![c].ok = (gone = "old")]
                  /\ UNCHANGED <<chroma, nextId>>
             ELSE /\ chroma' = upsert(chroma, docs, nextId)
                  /\ nextId' = nextId + Len(docs)
                  /\ inflight' = [inflight EXCEPT
                                     ![c].pc = "done", ![c].ok = TRUE,
                                     ![c].ids = nextId..(nextId + Len(docs) - 1)]
    /\ UNCHANGED <<app, embedder, session_db, messages, db_info, pc, batch,
                   ev, qry, spl>>

\* sessions adding at the same time, with status calls, clears and the
\* Embedder coming and going around them
NextConcurrent ==
    \/ \E c \in Callers, f \in Files : AddBegin(c, f)
    \/ \E c \in Callers : AddOpen(c)
    \/ \E c \in Callers : AddEmbed(c)
    \/ \E c \in Callers, gone \in {"old", "error"} : AddStore(c, gone)
    \/ clear_database
    \/ \E e \in EmbedderStates : EmbedderChange(e)

SpecConcurrent == Init /\ [][NextConcurrent]_vars

\* the programs around the index: ingestion, status, clearing; a script run
\* is followed up to the Clear Database button
NextIndex ==
    \/ \E s \in Sessions, files \in BatchesOf(MaxBatch) : StartUpload(s, files)
    \/ \E s \in Sessions : UploadFile(s)
    \/ \E s \in Sessions : EndUpload(s)
    \/ \E s \in Sessions : Sidebar(s)
    \/ \E s \in Sessions : ClearDatabaseButton(s)
    \/ \E s \in Sessions : EndRun(s)
    \/ clear_database
    \/ list_documents
    \/ generate_data_store
    \/ \E e \in EmbedderStates : EmbedderChange(e)

SpecIndex == Init /\ [][NextIndex]_vars

\* the chat session with the programs that change the index under it; files
\* are uploaded one at a time
NextChat ==
    \/ \E s \in Sessions, f \in Files : StartUpload(s, <<f>>)
    \/ \E s \in Sessions : UploadFile(s)
    \/ \E s \in Sessions : EndUpload(s)
    \/ \E s \in Sessions : Sidebar(s)
    \/ \E s \in Sessions : ClearDatabaseButton(s)
    \/ \E s \in Sessions : Main(s)
    \/ \E s \in Sessions, q \in Questions, llm \in {"text", "empty", "fail"},
          stale \in {"old", "error"} : Chat(s, q, llm, stale)
    \/ \E s \in Sessions : ClearChat(s)
    \/ \E s \in Sessions : EndRun(s)
    \/ clear_database
    \/ \E e \in EmbedderStates : EmbedderChange(e)

SpecChat == Init /\ [][NextChat]_vars

(***************************************************************************)
(* query_database as a function of what the index query returns: every     *)
(* result sequence the index can return for k=3, most relevant first.      *)
(***************************************************************************)
Scores == {30, 65, 70, 71, 95}
ResultDocs ==
    [page_content : {<<"x">>, <<"y", "y">>},
     source : {"a.txt", "b.md", NoSource},
     score : Scores]

Descending(results) ==
    \A i \in 1..(Len(results) - 1) : results[i].score >= results[i + 1].score

ResultSeqs == {r \in UNION {[1..n -> ResultDocs] : n \in 0..K} : Descending(r)}

InitQuery ==
    /\ SysInit /\ app = "app"
    /\ spl = SplIdle
    /\ \E r \in ResultSeqs, llm \in {"text", "empty", "fail"}, raised \in BOOLEAN :
          /\ raised => r = <<>>
          /\ qry = [done |-> FALSE, question |-> <<"q">>, llm |-> llm,
                    search |-> [raised |-> raised,
                                error |-> IF raised THEN "embedding unavailable" ELSE "",
                                results |-> r]]

\* the session calls query_database on the question
QueryDatabase ==
    /\ ~qry.done
    /\ qry' = [done |-> TRUE, question |-> qry.question, llm |-> qry.llm,
               search |-> qry.search,
               out |-> query_database(qry.question, qry.search, qry.llm)]
    /\ UNCHANGED <<sysvars, spl>>

SpecQuery == InitQuery /\ [][QueryDatabase]_vars

(***************************************************************************)
(* The splitter as a function of the text and its two budgets.             *)
(***************************************************************************)
MaxTextLen == 5     \* length of the texts drawn over the whole alphabet
MaxChunk == 3       \* largest chunk_size drawn with them

Alphabet == {"a", "b", " ", NL, TAB}
Texts == UNION {[1..n -> Alphabet] : n \in 0..MaxTextLen}

\* lengths of the unbroken texts split with the configured budgets
ConfiguredLengths == {0, 1, 300, 301, 500, 501, 900, 901, 1000}

InitSplit ==
    /\ SysInit /\ app = "app"
    /\ qry = QryIdle
    /\ \/ \E t \in Texts, c \in 1..MaxChunk, o \in 0..(MaxChunk - 1) :
             /\ o < c
             /\ spl = [done |-> FALSE, text |-> t, c |-> c, o |-> o]
       \/ \E n \in ConfiguredLengths :
             spl = [done |-> FALSE, text |-> Rep(n, "a"),
                    c |-> chunk_size, o |-> chunk_overlap]

\* text_splitter.split_documents(documents) on one loaded document
SplitDocuments ==
    /\ ~spl.done
    /\ spl' = [done |-> TRUE, text |-> spl.text, c |-> spl.c, o |-> spl.o,
               chunks |-> split_documents(spl.text, spl.c, spl.o)]
    /\ UNCHANGED <<sysvars, qry>>

SpecSplit == InitSplit /\ [][SplitDocuments]_vars

(***************************************************************************)
(* Properties of the splitter (SpecSplit).                                 *)
(***************************************************************************)
CeilDiv(a, b) == (a + b - 1) \div b
Blank(t) == \A i \in 1..Len(t) : t[i] \in Whitespace
Unbroken(t) == \A i \in 1..Len(t) : t[i] \notin Whitespace
NChunks == Len(spl.chunks)
StartOffset(i) == spl.chunks[i].start_index
ChunkLen(i) == Len(spl.chunks[i].page_content)

\* C9 as stated: for every text of length L the number of chunks is 0 when
\* L = 0, 1 when 0 < L <= c, and ceil((L - o) / (c - o)) when L > c.
C9_CountForAnyText ==
    spl.done =>
        NChunks = (IF Len(spl.text) = 0 THEN 0
                   ELSE IF Len(spl.text) <= spl.c THEN 1
                   ELSE CeilDiv(Len(spl.text) - spl.o, spl.c - spl.o))

\* C9 amended: the number of chunks is 0 for an empty text and (with c >= 2)
\* for a text of whitespace only, 1 for a text of length 0 < L <= c that has
\* a character other than whitespace, and ceil((L - o) / (c - o)) for a text
\* of length L > c with no whitespace in it; with c = 300 and o = 100 an
\* unbroken 1000-character document yields 5 chunks.
C9_ChunkCount ==
    spl.done =>
        /\ Len(spl.text) = 0 => NChunks = 0
        /\ Blank(spl.text) /\ spl.c >= 2 => NChunks = 0
        /\ Len(spl.text) > 0 /\ Len(spl.text) <= spl.c /\ ~Blank(spl.text)
              => NChunks = 1
        /\ Len(spl.text) > spl.c /\ Unbroken(spl.text)
              => NChunks = CeilDiv(Len(spl.text) - spl.o, spl.c - spl.o)
        /\ Len(spl.text) = 1000 /\ Unbroken(spl.text) /\ spl.c = 300 /\ spl.o = 100
              => NChunks = 5

\* the 1000-character document has been split with the configured budgets
C9_Witness ==
    /\ spl.done /\ spl.c = 300 /\ spl.o = 100
    /\ Len(spl.text) = 1000 /\ NChunks = 5

\* C10 as stated: for every text the start offsets are strictly increasing,
\* each step is at least c - o except possibly before a shorter final chunk,
\* and no start offset exceeds the length of the text.
C10_OffsetsForAnyText ==
    spl.done =>
        /\ \A i \in 1..(NChunks - 1) : StartOffset(i) < StartOffset(i + 1)
        /\ \A i \in 1..(NChunks - 1) :
              \/ StartOffset(i + 1) - StartOffset(i) >= spl.c - spl.o
              \/ i + 1 = NChunks /\ ChunkLen(i + 1) < spl.c
        /\ \A i \in 1..NChunks : StartOffset(i) <= Len(spl.text)

\* C10 amended: for every text each start offset is at least 0 and the chunk
\* placed there ends within the text; for a text with no whitespace in it the
\* start offsets are strictly increasing by exactly c - o; a 1000-character
\* unbroken document with c = 300 and o = 100 gives the offsets 0, 200, 400,
\* 600, 800 and a last chunk of 200 characters.
C10_ChunkOffsets ==
    spl.done =>
        /\ \A i \in 1..NChunks :
              StartOffset(i) >= 0 /\ StartOffset(i) + ChunkLen(i) <= Len(spl.text)
        /\ Unbroken(spl.text) =>
              \A i \in 1..(NChunks - 1) :
                  /\ StartOffset(i) < StartOffset(i + 1)
                  /\ StartOffset(i + 1) - StartOffset(i) = spl.c - spl.o
        /\ Len(spl.text) = 1000 /\ Unbroken(spl.text) /\ spl.c = 300 /\ spl.o = 100
              => /\ [i \in 1..NChunks |-> StartOffset(i)] = <<0, 200, 400, 600, 800>>
                 /\ ChunkLen(5) = 200

\* the offsets of the 1000-character document are there
C10_Witness ==
    /\ spl.done /\ spl.c = 300 /\ spl.o = 100
    /\ Len(spl.text) = 1000 /\ NChunks = 5 /\ StartOffset(5) = 800

(***************************************************************************)
(* Properties of query_database (SpecQuery).                               *)
(***************************************************************************)
\* C1: leaving aside a failed index query, the query returns the no-match
\* outcome, with no answer and the message recommending rephrasing or more
\* documents, exactly when the results are empty or the first result's
\* relevance is below 0.7: a top relevance of 0.65 gives no-match, one of
\* 0.71 or of exactly 0.7 gives a non-empty context.
C1_RelevanceGate ==
    qry.done /\ ~qry.search.raised =>
        LET results == qry.search.results
            rejected == results = <<>> \/ results[1].score < 70
        IN /\ qry.out.kind = "nomatch" <=> rejected
           /\ qry.out.kind = "nomatch" =>
                 /\ qry.out.response = <<>>
                 /\ qry.out.message = <<NoMatchMessage>>
                 /\ qry.out.context = <<>>
           /\ results # <<>> /\ results[1].score = 65 => qry.out.kind = "nomatch"
           /\ results # <<>> /\ results[1].score \in {70, 71}
                 => qry.out.kind # "nomatch" /\ qry.out.context # <<>>

\* a query whose best result scores exactly 0.7 has been answered
C1_Witness ==
    /\ qry.done /\ ~qry.search.raised /\ qry.search.results # <<>>
    /\ qry.search.results[1].score = 70 /\ qry.out.kind = "answer"

\* where the text of result i starts in the context
RECURSIVE ContextOffset(_, _)
ContextOffset(results, i) ==
    IF i = 1 THEN 0
    ELSE ContextOffset(results, i - 1) + Len(results[i - 1].page_content)
         + Len(ContextSeparator)

\* C2: when the gate passes, the context is the text of every result, in the
\* order returned, with the separator between neighbours and nothing else:
\* no result is dropped or moved, whatever its own relevance.
C2_ContextAllResults ==
    qry.done /\ ~qry.search.raised /\ qry.out.kind # "nomatch" =>
        LET results == qry.search.results
            n == Len(results)
            ctx == qry.out.context
        IN /\ Len(ctx) = ContextOffset(results, n) + Len(results[n].page_content)
           /\ \A i \in 1..n :
                 SubSeq(ctx, ContextOffset(results, i) + 1,
                        ContextOffset(results, i) + Len(results[i].page_content))
                     = results[i].page_content
           /\ \A i \in 2..n :
                 SubSeq(ctx, ContextOffset(results, i) - 6, ContextOffset(results, i))
                     = <<NL, NL, "-", "-", "-", NL, NL>>

\* a passed gate with three results of which the last is below 0.7
C2_Witness ==
    /\ qry.done /\ qry.out.kind = "answer" /\ Len(qry.search.results) = 3
    /\ qry.search.results[3].score < 70
    /\ qry.search.results[1].page_content # qry.search.results[3].page_content

\* C3: for every successful query the sources have the length and the order
\* of the results: element i is result i's source, or "Unknown" when it has
\* none; a source that several results share is listed once per result.
C3_SourcesParallel ==
    qry.done /\ qry.out.kind = "answer" =>
        /\ Len(qry.out.sources) = Len(qry.search.results)
        /\ \A i \in 1..Len(qry.search.results) :
              qry.out.sources[i] =
                  IF qry.search.results[i].source = NoSource THEN "Unknown"
                  ELSE qry.search.results[i].source

\* an answer drawn from two chunks of one document and one of no known source
C3_Witness ==
    /\ qry.done /\ qry.out.kind = "answer"
    /\ qry.out.sources = <<"a.txt", "a.txt", "Unknown">>

(***************************************************************************)
(* Properties of the index under ingestion and clearing (SpecIndex).       *)
(***************************************************************************)
IsPrefix(a, b) == Len(a) <= Len(b) /\ SubSeq(b, 1, Len(a)) = a

\* the chunks of file f, in order, are what the entries from position
\* first on hold
HoldsFileAt(entries, first, f) ==
    /\ Len(entries) = first - 1 + Len(FileChunks[f])
    /\ \A k \in 1..Len(FileChunks[f]) :
          /\ entries[first - 1 + k].chunk = <<f, k>>
          /\ entries[first - 1 + k].source = f

\* C4 as stated: on every ingestion path a successful add of n chunks keeps
\* every stored entry, unchanged, and raises the entry count by exactly n.
C4_EveryAddIncremental ==
    [][ev'.op = "add" /\ ev'.ok =>
          /\ IsPrefix(chroma.entries, chroma'.entries)
          /\ Len(chroma'.entries) = Len(chroma.entries) + ev'.n]_vars

\* C4 amended: a successful add of n chunks through add_documents_to_database
\* (app.py, app_enhanced.py) keeps every stored entry, unchanged, and appends
\* exactly the n new ones, on the append path when the directory exists and
\* on the create path when it does not; save_to_chroma of
\* create_database_simple.py is a rebuild: it removes the stored entries and
\* leaves exactly the n chunks of its own call.
C4_IncrementalAdd ==
    [][ev'.op = "add" /\ ev'.ok =>
          IF ev'.s = "script"
          THEN /\ HoldsFileAt(chroma'.entries, 1, ev'.file)
               /\ Ids(chroma'.entries) \cap Ids(chroma.entries) = {}
          ELSE /\ IsPrefix(chroma.entries, chroma'.entries)
               /\ HoldsFileAt(chroma'.entries, Len(chroma.entries) + 1, ev'.file)
               /\ Len(chroma'.entries) = Len(chroma.entries) + ev'.n
               /\ Ids(chroma'.entries) \cap Ids(chroma.entries) = Ids(chroma.entries)
               /\ Cardinality(Ids(chroma'.entries)) = Len(chroma'.entries)
               /\ ev'.path = IF chroma.exists THEN "append" ELSE "create"]_vars

\* an upload has been appended to an index that already held entries
C4_Witness ==
    /\ ev.op = "add" /\ ev.ok /\ ev.s \in Sessions /\ ev.path = "append"
    /\ Len(chroma.entries) > ev.n

\* C5: an add that fails because the Embedder is unreachable or
\* misconfigured leaves the index with exactly the entries it held before,
\* on every ingestion path.
C5_FailedAddChangesNothing ==
    [][ev'.op = "add" /\ ~ev'.ok => chroma'.entries = chroma.entries]_vars

\* C6: a clear leaves no directory and no entry; from then until an add has
\* run, the stats are count 0, no source and no file type; and the first add
\* goes down the creation path (or fails before choosing a path) and, when it
\* succeeds, leaves the index holding exactly the chunks of that add.
C6_ClearThenFresh ==
    [][/\ ev'.op = "clear" => ~chroma'.exists /\ chroma'.entries = <<>>
       /\ ev'.op = "stats" /\ ~chroma.exists =>
             /\ ev'.info.count = 0
             /\ ev'.info.sources = {}
             /\ DOMAIN ev'.info.file_types = {}
       /\ ev'.op = "add" /\ ~chroma.exists =>
             /\ ev'.path \in {"create", "none"}
             /\ ev'.ok => HoldsFileAt(chroma'.entries, 1, ev'.file)]_vars

\* an add has created the index anew after a clear removed earlier entries
C6_Witness ==
    /\ ev.op = "add" /\ ev.ok /\ ev.path = "create"
    /\ chroma.entries[1].id > 1

(***************************************************************************)
(* Properties of the chat session over a changing index (SpecChat).        *)
(***************************************************************************)
\* the ids of the entries that a clear has removed
ClearedIds == (1..(nextId - 1)) \ Ids(chroma.entries)

\* C7, for the questions asked while the Embedder is available: a question
\* asked when the index holds no entry ends in the no-match outcome, whatever
\* handle the session holds.
C7_EmptyIndexNoMatch ==
    ev.op = "query" /\ embedder = "ok" /\ Len(chroma.entries) = 0
        => ev.kind = "nomatch"

\* C8: once a clear has completed, no query returns an entry that the clear
\* removed and no stats call counts one.
C8_ClearedNeverReturned ==
    /\ ev.op = "query" => \A i \in 1..Len(ev.results) : ev.results[i] \notin ClearedIds
    /\ ev.op = "stats" => ev.info.count = Len(chroma.entries) \/ ev.info.count = 0

(***************************************************************************)
(* Properties of the upload batch (SpecIndex).                             *)
(***************************************************************************)
\* the files of no byte
ZeroByte == {f \in DOMAIN FileText : FileText[f] = <<>>}

\* C11: ingesting a zero-byte file shows no error and leaves the index as it
\* was, and a batch made of zero-byte files only ends in the success report
\* with 0 chunks, not in an error.
C11_ZeroByteNoError ==
    [][/\ ev'.op = "skip" /\ ev'.file \in ZeroByte =>
             ~ev'.error /\ chroma' = chroma
       /\ ev'.op = "tally" /\ ev'.empty = ev'.of =>
             ev'.success /\ ev'.chunks = 0]_vars

\* C12: a failure on one file of a batch never keeps the files after it from
\* being attempted: the loop is never left with files still to come.
C12_EveryFileAttempted ==
    ev.op = "abort" => ev.left = 0

\* C13: the number of files reported as processed is the number of files
\* whose chunks were added, and the reported chunk total is the number of
\* entries the batch added.
C13_TallyIsTrue ==
    ev.op = "tally" /\ ev.success =>
        /\ ev.files = ev.added_files
        /\ ev.chunks = ev.added_chunks

\* C19: every call of process_uploaded_file has deleted every temporary
\* file it created by the time it returns.
C19_NoTempFileLeft ==
    ev.op \in {"add", "skip"} /\ ev.s \in Sessions => ev.tmp_left = 0

\* the sum of the counts of a file-type map
RECURSIVE SumCounts(_)
SumCounts(m) ==
    IF DOMAIN m = {} THEN 0
    ELSE LET t == CHOOSE t \in DOMAIN m : TRUE
         IN m[t] + SumCounts([u \in DOMAIN m \ {t} |-> m[u]])

\* C18: whatever the state of the Embedder, the stats count the entries of
\* the index, name the set of their sources, and give per-file-type counts
\* that add up to the count.
C18_StatsAggregateEntries ==
    ev.op = "stats" =>
        /\ ev.info.count = Len(chroma.entries)
        /\ ev.info.sources = {chroma.entries[i].source : i \in 1..Len(chroma.entries)}
        /\ SumCounts(ev.info.file_types) = ev.info.count

(***************************************************************************)
(* Properties of the completion call and the chat history (SpecQuery,      *)
(* SpecChat).                                                              *)
(***************************************************************************)
\* C14: a query makes exactly one completion call when the index query
\* returned and the gate passed, also when that call fails, and none when
\* the gate rejected the results or the index query failed.
C14_CompletionOnce ==
    qry.done =>
        LET passed == /\ ~qry.search.raised
                      /\ qry.search.results # <<>>
                      /\ qry.search.results[1].score >= 70
        IN qry.out.calls = IF passed THEN 1 ELSE 0

\* a query whose one completion call failed
C14_Witness ==
    qry.done /\ qry.llm = "fail" /\ qry.out.kind = "error" /\ qry.out.calls = 1

\* the user message a question leaves in the history
UserMessage(q) == [role |-> "user", content |-> <<q>>, sources |-> <<>>]

\* C15: when the completion fails, the query returns the error outcome with
\* the failure's message, no answer text and no sources, and the history
\* gains no assistant message for the question.
C15_CompletionFailure ==
    [][ev'.op = "query" /\ ev'.llm = "fail" =>
          /\ ev'.kind = "error"
          /\ ev'.message = <<ErrorPrefix, "completion failed">>
          /\ ev'.response = <<>>
          /\ ev'.sources = <<>>
          /\ messages'[ev'.s] = Append(messages[ev'.s], UserMessage(ev'.q))]_vars

\* a question whose completion failed, asked after an earlier question
C15_Witness ==
    /\ ev.op = "query" /\ ev.llm = "fail"
    /\ Len(messages[ev.s]) >= 2
    /\ messages[ev.s][Len(messages[ev.s])].role = "user"

C20_HistoryShape ==
    [][/\ \A s \in Sessions : \A i \in 1..Len(messages'[s]) :
             messages'[s][i].role = "assistant" =>
                 i > 1 /\ messages'[s][i - 1].role = "user"
       /\ ev'.op = "query" =>
             messages'[ev'.s] =
                 IF ev'.kind = "answer"
                 THEN messages[ev'.s]
                      \o <<UserMessage(ev'.q),
                           [role |-> "assistant", content |-> ev'.response,
                            sources |-> ev'.sources]>>
                 ELSE Append(messages[ev'.s], UserMessage(ev'.q))]_vars

(***************************************************************************)
(* Properties of adds made at the same time (SpecConcurrent).              *)
(***************************************************************************)
\* the entries hold no part of an add without the rest of it: with chunk k
\* of a file come the file's other chunks, in order, under consecutive ids
WholeAdds(entries) ==
    \A i \in 1..Len(entries) :
        LET f == entries[i].chunk[1]
            first == i - entries[i].chunk[2] + 1
        IN /\ first >= 1
           /\ first + Len(FileChunks[f]) - 1 <= Len(entries)
           /\ \A k \in 1..Len(FileChunks[f]) :
                 /\ entries[first + k - 1].chunk = <<f, k>>
                 /\ entries[first + k - 1].id = entries[first].id + k - 1

Copies(entries, chunk) ==
    Cardinality({i \in 1..Len(entries) : entries[i].chunk = chunk})

\* a step that removes the storage: the Clear Database button,
\* document_manager.py clear, and the rebuild of create_database_simple.py
ClearingStep == ev'.op = "clear" \/ (ev'.op = "add" /\ ev'.s = "script")

\* C21: the upload path detects no duplicate.  Every successful upload of a
\* file with n chunks raises the entry count by n and stores one more copy
\* of each of its chunks, under ids of their own, also when the index holds
\* the file's chunks already; so m uploads of the file leave m copies, m * n
\* entries more.  Between clears the entry count never decreases.
C21_AddNotIdempotent ==
    [][/\ ev'.op = "add" /\ ev'.ok /\ ev'.s \in Sessions =>
             /\ Len(chroma'.entries)
                   = Len(chroma.entries) + Len(FileChunks[ev'.file])
             /\ \A k \in 1..Len(FileChunks[ev'.file]) :
                   Copies(chroma'.entries, <<ev'.file, k>>)
                      = Copies(chroma.entries, <<ev'.file, k>>) + 1
             /\ Cardinality(Ids(chroma'.entries)) = Len(chroma'.entries)
       /\ ~ClearingStep => Len(chroma'.entries) >= Len(chroma.entries)]_vars

\* one batch has uploaded the same file twice: both uploads were added and
\* every chunk of the file is stored twice
C21_Witness ==
    /\ ev.op = "add" /\ ev.ok /\ ev.s \in Sessions
    /\ batch[ev.s].added_files = 2
    /\ batch[ev.s].added_chunks = 2 * Len(FileChunks[ev.file])
    /\ Len(chroma.entries) = 2 * Len(FileChunks[ev.file])
    /\ \A k \in 1..Len(FileChunks[ev.file]) :
          Copies(chroma.entries, <<ev.file, k>>) = 2

====
